---- MODULE Spec2Model ----
(***************************************************************************)
(* A model of aya's Bpf facade (aya/src/bpf.rs): the load pipeline         *)
(* Bpf::load, which turns a parsed object into kernel maps and program     *)
(* records, and the lookups Bpf::map, Bpf::map_mut, Bpf::maps,             *)
(* Bpf::program and Bpf::program_mut over the loaded object.               *)
(*                                                                         *)
(* Three specifications are given.  Spec is one execution of Bpf::load,   *)
(* with every external call (parser, BTF relocator, CPU enumeration,       *)
(* kernel map layer, relocation resolvers) free to fail.  SpecAccess is a  *)
(* loaded object whose callers, on any threads, look maps and programs up, *)
(* drop the views they obtained and drop the object.  SpecTwo is two       *)
(* objects loaded from the same bytes and the map lookups on both.  No     *)
(* operation of Bpf depends on which thread issues it, so callers are not  *)
(* told apart: every lookup is one step, and the steps of all callers      *)
(* interleave freely.                                                      *)
(***************************************************************************)
EXTENDS Integers, Sequences, FiniteSets, TLC

VARIABLES
    pc,         \* position of Bpf::load: "start", "btf", "maps", "relocate_calls",
                \* "programs", "done", "failed"; "dropped" once the Bpf it
                \* returned has been dropped
    data,       \* the data argument of load, as what Object::parse makes of it
    target_btf, \* the target_btf argument of load: TRUE for Some(btf)
    obj,        \* the parsed Object: [maps, relocated], its map table drained as
                \* load goes, with the rewrites its programs have received
    parsed,     \* history: the map and program tables as Object::parse returned them
    maps,       \* load's local Vec<Map>, in push order
    kernel,     \* kernel maps by fd: [def, elem0, open]
    calls,      \* history: the external calls load made, in order
    result,     \* what load returned: [tag, ...]
    bpf,        \* the Bpf value: None or Some([maps, programs])
    lock,       \* per map name, the MapLock state: [readers, writer]
    cells,      \* per map name, the Map a MapLock and the views of it share
    held,       \* per map name: the views callers hold, shared and exclusive, [s, x]
    iters,      \* the live iterators of Bpf::maps: for each, the names it has left
    ret,        \* what the last completed lookup returned
    other       \* the MapLock states of a second Bpf, once there is one

vars == <<pc, data, target_btf, obj, parsed, maps, kernel, calls, result, bpf,
          lock, cells, held, iters, ret, other>>
loadVars == <<pc, data, target_btf, obj, parsed, maps, kernel, calls, result>>
accessVars == <<lock, cells, held, iters, ret, other>>

----------------------------------------------------------------------------
(* Bounds of the model. *)

\* map definitions in a parsed object
MaxMaps == 2
\* program sections in a parsed object
MaxPrograms == 1
\* views callers hold at a time, over all maps
MaxViews == 3
\* iterators of Bpf::maps alive at a time
MaxIters == 2

----------------------------------------------------------------------------
(* Values. *)

None == <<>>
Some(x) == <<x>>
IsSome(o) == o # <<>>
Unwrap(o) == o[1]

BPF_MAP_TYPE_PERF_EVENT_ARRAY == 4
POSSIBLE_CPUS == "/sys/devices/system/cpu/possible"

\* the map kinds objects are drawn from: array and perf-event array
MapTypes == {2, BPF_MAP_TYPE_PERF_EVENT_ARRAY}
\* the names objects are drawn from; ".bss" is the zero-initialised section
MapNames == {".bss", "a", "b"}
ProgramNames == {"p", "q"}
ProgramKinds == {"KProbe", "KRetProbe", "UProbe", "URetProbe", "TracePoint",
                 "SocketFilter", "Xdp"}
\* answers of possible_cpus(): ascending CPU ids, contiguous, sparse or none
CpuLists == {<<>>, <<0, 1, 2, 3>>, <<0, 2>>}

\* struct bpf_map_def
bpf_map_def(t, k, v, n, f) ==
    [map_type |-> t, key_size |-> k, value_size |-> v, max_entries |-> n,
     map_flags |-> f]

\* obj::Map as the parser leaves it: a definition, a name, initial data
MapAttrs ==
    [def : {bpf_map_def(t, 4, 4, n, 0) : t \in MapTypes, n \in {0, 5}},
     data : {<<>>, <<7>>}]

\* Object.maps: the parser keys each map by the name it gives the map record
MapTables ==
    UNION {{[k \in S |-> [name |-> k, def |-> g[k].def, data |-> g[k].data]]
             : g \in [S -> MapAttrs]}
           : S \in {T \in SUBSET MapNames : Cardinality(T) <= MaxMaps}}

\* Object.programs: each program section has the kind the parser gave it
ProgramTables ==
    UNION {[S -> ProgramKinds]
           : S \in {T \in SUBSET ProgramNames : Cardinality(T) <= MaxPrograms}}

\* the byte slices load is given: malformed, or the encoding of an object.
\* load reads nothing of the program table before it drains it (line 105), so
\* a value of data stands for the byte slices that encode one map table and
\* any program table of data.programs, and the model draws the table at the
\* drain; until then obj.relocated stands for the rewrites the relocators
\* have applied to every program's instructions.
DataOf(mapTables, programTables) ==
    {[ok |-> FALSE, maps |-> <<>>, programs |-> {}]}
        \cup {[ok |-> TRUE, maps |-> m, programs |-> programTables] : m \in mapTables}

AllData == DataOf(MapTables, ProgramTables)

EmptyObject == [maps |-> <<>>, relocated |-> {}]
NothingParsed == [maps |-> <<>>, programs |-> <<>>]

\* what possible_cpus() may answer: an I/O error, or the ids it read
Hosts == {[ok |-> FALSE, ids |-> <<>>]} \cup {[ok |-> TRUE, ids |-> c] : c \in CpuLists}

----------------------------------------------------------------------------
(* Bpf::load. *)

Ok == [tag |-> "Ok"]
Pending == [tag |-> "Pending"]
Err(kind, detail) == [tag |-> "Err", kind |-> kind, detail |-> detail]

\* an early return of load through `?`: the error is returned, nothing is built
Fail(e) ==
    /\ pc' = "failed"
    /\ result' = e

Without(f, k) == [x \in DOMAIN f \ {k} |-> f[x]]

\* Object::parse(data)?  (line 75)
Parse ==
    /\ pc = "start"
    /\ IF data.ok
       THEN /\ obj' = [maps |-> data.maps, relocated |-> {}]
            /\ parsed' = [maps |-> data.maps, programs |-> <<>>]
            /\ calls' = Append(calls, [op |-> "parse", ok |-> TRUE])
            /\ pc' = "btf"
            /\ UNCHANGED result
       ELSE /\ calls' = Append(calls, [op |-> "parse", ok |-> FALSE])
            /\ Fail(Err("ParseError", ""))
            /\ UNCHANGED <<obj, parsed>>
    /\ UNCHANGED <<data, target_btf, maps, kernel, bpf, accessVars>>

\* what a relocator does to the object: its programs' instructions are rewritten
MarkRelocated(o, what) == [o EXCEPT !.relocated = @ \cup {what}]

\* if let Some(btf) = target_btf { obj.relocate_btf(btf)?; }  (lines 77-79)
RelocateBtf ==
    /\ pc = "btf"
    /\ IF target_btf
       THEN \E ok \in BOOLEAN :
              /\ calls' = Append(calls, [op |-> "relocate_btf", ok |-> ok])
              /\ IF ok
                 THEN /\ obj' = MarkRelocated(obj, "btf")
                      /\ pc' = "maps"
                      /\ UNCHANGED result
                 ELSE /\ Fail(Err("BtfError", ""))
                      /\ UNCHANGED obj
       ELSE /\ pc' = "maps"
            /\ UNCHANGED <<obj, calls, result>>
    /\ UNCHANGED <<data, target_btf, parsed, maps, kernel, bpf, accessVars>>

\* a slip: the declared max_entries is not looked at
NeedsCpus_AnyPerf(def) == def.map_type = BPF_MAP_TYPE_PERF_EVENT_ARRAY

\* a slip: the kind of the map is not looked at
NeedsCpus_AnyKind(def) == def.max_entries = 0

\* the condition of line 83: a perf-event array declared with no entries
NeedsCpus(def) ==
    def.map_type = BPF_MAP_TYPE_PERF_EVENT_ARRAY /\ def.max_entries = 0

\* a slip: the number of CPUs instead of the last id
LastOrZero_Count(ids) == Len(ids)

\* *ids.last().unwrap_or(&0)  (lines 90-91)
LastOrZero(ids) == IF Len(ids) = 0 THEN 0 ELSE ids[Len(ids)]

\* the definition a map is created with  (lines 83-92)
ResolveDef(def, ids) ==
    IF NeedsCpus(def) THEN [def EXCEPT !.max_entries = LastOrZero(ids)] ELSE def

\* a slip: ".bss" is written like any other map
NeedsInitialData_Bss(o) == Len(o.data) # 0

\* the condition of line 95: initial data is written, except for ".bss"
NeedsInitialData(o) == Len(o.data) # 0 /\ o.name # ".bss"

\* a slip: the result of the update is dropped
UpdateFails_Ignored(o, update_ok) == FALSE

\* whether the update of lines 96-97 makes load return
UpdateFails(o, update_ok) == NeedsInitialData(o) /\ ~update_ok

\* the handle the kernel gives the next map
NextFd == 3 + Cardinality(DOMAIN kernel)

CpuCall(o, host) ==
    IF NeedsCpus(o.def)
    THEN <<[op |-> "possible_cpus", ok |-> host.ok, name |-> o.name, ids |-> host.ids]>>
    ELSE <<>>

CreateCall(o, fd, ok) ==
    <<[op |-> "create", ok |-> ok, name |-> o.name, def |-> o.def,
       fd |-> IF ok THEN Some(fd) ELSE None]>>

\* bpf_map_update_elem_ptr(fd, &0, data, 0)  (line 96)
UpdateCall(o, fd, ok) ==
    IF NeedsInitialData(o)
    THEN <<[op |-> "update", ok |-> ok, name |-> o.name, fd |-> fd, key |-> 0,
            value |-> o.data, flags |-> 0]>>
    ELSE <<>>

\* Map::create, kernel side: a new map of that definition, nothing written
KernelCreate(k, fd, def) == (fd :> [def |-> def, elem0 |-> <<>>, open |-> TRUE]) @@ k

\* the kernel's element update at key 0
KernelUpdate(k, fd, value) == [k EXCEPT ![fd].elem0 = value]

\* let mut map = Map { obj, fd: None }  (line 93)
NewMap(o) == [obj |-> o, fd |-> None]

\* Map::create succeeded: the record keeps the handle it returns
Created(map, fd) == [map EXCEPT !.fd = Some(fd)]

\* a slip: the `?` is missing and the loop goes on with the map
CreateFails_Ignored(create_ok) == FALSE

\* whether map.create()? makes load return  (line 94)
CreateFails(create_ok) == ~create_ok

\* one iteration of `for (_, mut obj) in obj.maps.drain()`  (lines 82-100);
\* the table is a hash map, so any remaining entry may come next.  host is
\* what possible_cpus() answers if this iteration calls it.
LoadMap ==
    /\ pc = "maps"
    /\ \E key \in DOMAIN obj.maps : \E host \in Hosts, create_ok, update_ok \in BOOLEAN :
        LET o0 == obj.maps[key]
            o == [o0 EXCEPT !.def = ResolveDef(o0.def, host.ids)]
            fd == NextFd
            map == IF create_ok THEN Created(NewMap(o), fd) ELSE NewMap(o)
        IN  /\ obj' = [obj EXCEPT !.maps = Without(obj.maps, key)]
            /\ IF NeedsCpus(o0.def) /\ ~host.ok
               THEN /\ calls' = calls \o CpuCall(o0, host)
                    /\ Fail(Err("FileError", POSSIBLE_CPUS))
                    /\ UNCHANGED <<maps, kernel>>
               ELSE IF CreateFails(create_ok)
               THEN /\ calls' = calls \o CpuCall(o0, host) \o CreateCall(o, fd, FALSE)
                    /\ Fail(Err("MapError", "CreateError"))
                    /\ UNCHANGED <<maps, kernel>>
               ELSE IF UpdateFails(o, update_ok)
               THEN /\ calls' = calls \o CpuCall(o0, host) \o CreateCall(o, fd, TRUE)
                                      \o UpdateCall(o, fd, FALSE)
                    /\ kernel' = KernelCreate(kernel, fd, o.def)
                    /\ Fail(Err("MapError", "UpdateElementError"))
                    /\ UNCHANGED maps
               ELSE /\ calls' = calls \o CpuCall(o0, host) \o CreateCall(o, fd, TRUE)
                                      \o UpdateCall(o, fd, update_ok)
                    /\ kernel' = IF NeedsInitialData(o) /\ update_ok
                                 THEN KernelUpdate(KernelCreate(kernel, fd, o.def), fd, o.data)
                                 ELSE KernelCreate(kernel, fd, o.def)
                    /\ maps' = Append(maps, map)
                    /\ UNCHANGED <<pc, result>>
    /\ UNCHANGED <<data, target_btf, parsed, bpf, accessVars>>

\* a slip: relocation does not wait for the loop
DrainDone_Early == TRUE

\* the drain of line 82 is exhausted: every map of the object went through the loop
DrainDone == DOMAIN obj.maps = {}

\* obj.relocate_maps(maps.as_slice())?  (line 102)
RelocateMaps ==
    /\ pc = "maps"
    /\ DrainDone
    /\ \E ok \in BOOLEAN :
        /\ calls' = Append(calls, [op |-> "relocate_maps", ok |-> ok, maps |-> maps])
        /\ IF ok
           THEN /\ obj' = MarkRelocated(obj, "maps")
                /\ pc' = "relocate_calls"
                /\ UNCHANGED result
           ELSE /\ Fail(Err("RelocationError", "maps"))
                /\ UNCHANGED obj
    /\ UNCHANGED <<data, target_btf, parsed, maps, kernel, bpf, accessVars>>

\* a slip: the programs are wrapped without their calls being relocated
RelocateCalls_Skipped ==
    /\ pc = "relocate_calls"
    /\ pc' = "programs"
    /\ UNCHANGED <<data, target_btf, obj, parsed, maps, kernel, calls, result, bpf,
                   accessVars>>

\* obj.relocate_calls()?  (line 103)
RelocateCalls ==
    /\ pc = "relocate_calls"
    /\ \E ok \in BOOLEAN :
        /\ calls' = Append(calls, [op |-> "relocate_calls", ok |-> ok])
        /\ IF ok
           THEN /\ obj' = MarkRelocated(obj, "calls")
                /\ pc' = "programs"
                /\ UNCHANGED result
           ELSE /\ Fail(Err("RelocationError", "calls"))
                /\ UNCHANGED obj
    /\ UNCHANGED <<data, target_btf, parsed, maps, kernel, bpf, accessVars>>

\* ProgramData { obj, name: name.clone(), fd: None, links: Vec::new() }  (lines 110-115)
ProgramData(name, pobj) ==
    [obj |-> pobj, name |-> name, fd |-> None, links |-> <<>>]

\* a slip: a return probe is wrapped as an entry probe
ProgramOf_EntryOnly(kind, pdata) ==
    CASE kind \in {"KProbe", "KRetProbe"} ->
            [variant |-> "KProbe", kind |-> Some("KProbe"), data |-> pdata]
      [] kind \in {"UProbe", "URetProbe"} ->
            [variant |-> "UProbe", kind |-> Some("UProbe"), data |-> pdata]
      [] OTHER -> [variant |-> kind, kind |-> None, data |-> pdata]

\* the variant a parsed kind is wrapped in, with its probe tag  (lines 116-138)
ProgramOf(kind, pdata) ==
    CASE kind = "KProbe" -> [variant |-> "KProbe", kind |-> Some("KProbe"), data |-> pdata]
      [] kind = "KRetProbe" -> [variant |-> "KProbe", kind |-> Some("KRetProbe"), data |-> pdata]
      [] kind = "UProbe" -> [variant |-> "UProbe", kind |-> Some("UProbe"), data |-> pdata]
      [] kind = "URetProbe" -> [variant |-> "UProbe", kind |-> Some("URetProbe"), data |-> pdata]
      [] kind = "TracePoint" -> [variant |-> "TracePoint", kind |-> None, data |-> pdata]
      [] kind = "SocketFilter" -> [variant |-> "SocketFilter", kind |-> None, data |-> pdata]
      [] kind = "Xdp" -> [variant |-> "Xdp", kind |-> None, data |-> pdata]

\* obj.programs.drain().map(|(name, obj)| ... (name, program)).collect()  (lines 105-142)
ProgramTable(programs, relocated) ==
    [name \in DOMAIN programs |->
        ProgramOf(programs[name],
                  ProgramData(name, [kind |-> programs[name], relocated |-> relocated]))]

\* a slip: every map is filed under the name of the maps section
MapTableKey_Section(map) == "maps"

\* the key a map gets in Bpf.maps: map.obj.name.clone()  (line 147)
MapTableKey(map) == map.obj.name

\* maps.drain(..).map(|map| (key, MapLock::new(map))).collect(): a later map
\* replaces an earlier one of the same key  (lines 145-148)
MapTable(ms) ==
    [n \in {MapTableKey(ms[i]) : i \in DOMAIN ms} |->
        LET last == CHOOSE i \in DOMAIN ms :
                        /\ MapTableKey(ms[i]) = n
                        /\ \A j \in DOMAIN ms : MapTableKey(ms[j]) = n => j <= i
        IN  ms[last]]

\* MapLock::new(map): nothing borrowed
Unlocked == [readers |-> 0, writer |-> FALSE]

\* MapLock::new(map) for every map of the table  (lines 145-148)
NewLocks(table) == [n \in DOMAIN table |-> Unlocked]

\* the programs are wrapped and Ok(Bpf { maps, programs }) is returned  (lines 105-150)
Assemble ==
    /\ pc = "programs"
    /\ \E programs \in data.programs :
        /\ parsed' = [parsed EXCEPT !.programs = programs]
        /\ bpf' = Some([maps |-> MapTable(maps),
                        programs |-> ProgramTable(programs, obj.relocated)])
    /\ lock' = NewLocks(MapTable(maps))
    /\ cells' = MapTable(maps)
    /\ UNCHANGED obj
    /\ maps' = <<>>
    /\ result' = Ok
    /\ pc' = "done"
    /\ UNCHANGED <<data, target_btf, kernel, calls, held, iters, ret, other>>

NoRet == [op |-> "", name |-> "", tag |-> "", err |-> "", errname |-> "", what |-> ""]

InitFor(datas) ==
    /\ pc = "start"
    /\ data \in datas
    /\ target_btf \in BOOLEAN
    /\ obj = EmptyObject
    /\ parsed = NothingParsed
    /\ maps = <<>>
    /\ kernel = <<>>
    /\ calls = <<>>
    /\ result = Pending
    /\ bpf = None
    /\ lock = <<>>
    /\ cells = <<>>
    /\ held = [n \in MapNames |-> [s |-> 0, x |-> 0]]
    /\ iters = <<>>
    /\ ret = NoRet
    /\ other = None

Init == InitFor(AllData)

NextLoad ==
    \/ Parse
    \/ RelocateBtf
    \/ LoadMap
    \/ RelocateMaps
    \/ RelocateCalls
    \/ Assemble

Spec == Init /\ [][NextLoad]_vars

----------------------------------------------------------------------------
(* The map access layer and the lookups of the loaded object. *)

\* MapLock::try_read: a shared view unless an exclusive one is out
try_read(l) ==
    IF l.writer THEN [ok |-> FALSE, lock |-> l]
    ELSE [ok |-> TRUE, lock |-> [l EXCEPT !.readers = @ + 1]]

\* MapLock::try_write: an exclusive view if no view is out
try_write(l) ==
    IF l.writer \/ l.readers > 0 THEN [ok |-> FALSE, lock |-> l]
    ELSE [ok |-> TRUE, lock |-> [l EXCEPT !.writer = TRUE]]

\* a view goes out of scope: "s" a MapRef, "x" a MapRefMut
Drop(l, mode) ==
    IF mode = "s" THEN [l EXCEPT !.readers = @ - 1] ELSE [l EXCEPT !.writer = FALSE]

\* the typed views callers ask for, by the shape each requires of the map:
\* arrays of 4-byte keys and values, of wider keys, of wider values, and the
\* perf-event array
Shapes ==
    {[map_type |-> 2, key_size |-> 4, value_size |-> 4],
     [map_type |-> 2, key_size |-> 8, value_size |-> 4],
     [map_type |-> 2, key_size |-> 4, value_size |-> 8],
     [map_type |-> BPF_MAP_TYPE_PERF_EVENT_ARRAY, key_size |-> 4, value_size |-> 4]}

\* T::try_from(view): the map's kind, key size and value size must be T's
TryFrom(T, map) ==
    /\ map.obj.def.map_type = T.map_type
    /\ map.obj.def.key_size = T.key_size
    /\ map.obj.def.value_size = T.value_size

\* what the failed conversion reports: the first of kind, key size and value
\* size that is not T's
Unfit(T, map) ==
    IF map.obj.def.map_type # T.map_type THEN "map_type"
    ELSE IF map.obj.def.key_size # T.key_size THEN "key_size"
    ELSE "value_size"

\* a slip: the lookup hands the view out without the conversion's verdict
Convert_Unchecked(T, map) == TRUE

\* T::try_from(view) decides what the lookup returns  (lines 163, 180)
Convert(T, map) == TryFrom(T, map)

\* the program wrappers there are, and those the callers of the model ask for
ProgramVariants == {"KProbe", "UProbe", "TracePoint", "SocketFilter", "Xdp"}
RequestedVariants == {"KProbe", "Xdp"}

\* T::try_from(&Program): the stored variant must be the one asked for
ProgramTryFrom(K, program) == program.variant = K

\* self.maps.get(name), self.programs.get(name)
Get(table, name) == IF name \in DOMAIN table THEN Some(table[name]) ELSE None

\* a slip: the lookup goes by the first entry, not by the name
LockOf_First(locks, name) == locks[CHOOSE n \in DOMAIN locks : TRUE]

\* self.maps.get(name): the lock of the entry of that name  (lines 160-161, 177-178)
LockOf(locks, name) == locks[name]

\* a slip: Bpf::map asks for the exclusive view
MapAcquire_Exclusive(l) == try_write(l)

\* lock.try_read()  (line 163)
MapAcquire(l) == try_read(l)

\* a slip: Bpf::map_mut asks for the shared view
MapMutAcquire_Shared(l) == try_read(l)

\* lock.try_write()  (line 180)
MapMutAcquire(l) == try_write(l)

\* a slip: read() and write() are called, which wait until the lock is free
Returns_WhenFree(a) == a.ok

\* try_read() and try_write() return at once, with the view or the refusal
\* (lines 163, 180, 191)
Returns(a) == TRUE

\* a slip: the view outlives the failed conversion
ConversionFailed_Leak(l, mode) == l

\* T::try_from took the view by value and failed: the view is dropped with
\* its argument  (lines 163-166, 180-183)
ConversionFailed(l, mode) == Drop(l, mode)

\* MapError::BorrowError { name: name.to_owned() }  (lines 163-165)
BorrowError(name) == [err |-> "BorrowError", errname |-> name, what |-> ""]
Mismatch == [err |-> "Mismatch", errname |-> "", what |-> ""]
\* the error of a failed map conversion, <T as TryFrom<MapRef>>::Error
ShapeMismatch(T, map) == [err |-> "Mismatch", errname |-> "", what |-> Unfit(T, map)]
NoError == [err |-> "", errname |-> "", what |-> ""]

Returned(op, name, tag, e) ==
    [op |-> op, name |-> name, tag |-> tag, err |-> e.err, errname |-> e.errname,
     what |-> e.what]

HeldCount ==
    held[".bss"].s + held[".bss"].x + held["a"].s + held["a"].x + held["b"].s + held["b"].x

Loaded == pc = "done"
MapsOf == Unwrap(bpf).maps
ProgramsOf == Unwrap(bpf).programs

\* Bpf::map::<T>(name)  (lines 153-168)
BpfMap(name, T) ==
    /\ Loaded
    /\ IF Get(MapsOf, name) = None
       THEN /\ ret' = Returned("map", name, "None", NoError)
            /\ UNCHANGED <<lock, held>>
       ELSE LET a == MapAcquire(LockOf(lock, name)) IN
            /\ Returns(a)
            /\ IF ~a.ok
               THEN /\ ret' = Returned("map", name, "Err", BorrowError(name))
                    /\ UNCHANGED <<lock, held>>
               ELSE IF Convert(T, MapsOf[name])
               THEN /\ HeldCount < MaxViews
                    /\ lock' = [lock EXCEPT ![name] = a.lock]
                    /\ held' = [held EXCEPT ![name].s = @ + 1]
                    /\ ret' = Returned("map", name, "Some", NoError)
               ELSE /\ lock' = [lock EXCEPT ![name] = ConversionFailed(a.lock, "s")]
                    /\ ret' = Returned("map", name, "Err", ShapeMismatch(T, MapsOf[name]))
                    /\ UNCHANGED held
    /\ UNCHANGED <<loadVars, other, bpf, cells, iters>>

\* Bpf::map_mut::<T>(name)  (lines 170-185)
BpfMapMut(name, T) ==
    /\ Loaded
    /\ IF Get(MapsOf, name) = None
       THEN /\ ret' = Returned("map_mut", name, "None", NoError)
            /\ UNCHANGED <<lock, held>>
       ELSE LET a == MapMutAcquire(LockOf(lock, name)) IN
            /\ Returns(a)
            /\ IF ~a.ok
               THEN /\ ret' = Returned("map_mut", name, "Err", BorrowError(name))
                    /\ UNCHANGED <<lock, held>>
               ELSE IF Convert(T, MapsOf[name])
               THEN /\ HeldCount < MaxViews
                    /\ lock' = [lock EXCEPT ![name] = a.lock]
                    /\ held' = [held EXCEPT ![name].x = @ + 1]
                    /\ ret' = Returned("map_mut", name, "Some", NoError)
               ELSE /\ lock' = [lock EXCEPT ![name] = ConversionFailed(a.lock, "x")]
                    /\ ret' = Returned("map_mut", name, "Err", ShapeMismatch(T, MapsOf[name]))
                    /\ UNCHANGED held
    /\ UNCHANGED <<loadVars, other, bpf, cells, iters>>

\* some view of the map is out
Viewed(l) == l.writer \/ l.readers > 0

\* the kernel handle is released
KernelClose(k, fds) == [fd \in DOMAIN k |-> IF fd \in fds THEN [k[fd] EXCEPT !.open = FALSE] ELSE k[fd]]

Only(f, S) == [x \in DOMAIN f \cap S |-> f[x]]

\* a caller lets go of a view it holds: the MapRef or MapRefMut is dropped.
\* The last view of a map whose Bpf is gone takes the map with it.
Release(name, mode) ==
    /\ pc \in {"done", "dropped"}
    /\ name \in DOMAIN lock
    /\ IF mode = "s" THEN held[name].s > 0 ELSE held[name].x > 0
    /\ held' = IF mode = "s" THEN [held EXCEPT ![name].s = @ - 1]
               ELSE [held EXCEPT ![name].x = @ - 1]
    /\ IF pc = "dropped" /\ ~Viewed(Drop(lock[name], mode))
       THEN /\ lock' = Without(lock, name)
            /\ cells' = Without(cells, name)
            /\ kernel' = KernelClose(kernel, {Unwrap(cells[name].fd)})
       ELSE /\ lock' = [lock EXCEPT ![name] = Drop(@, mode)]
            /\ UNCHANGED <<cells, kernel>>
    /\ UNCHANGED <<pc, data, target_btf, obj, parsed, maps, calls, result, bpf, iters, ret,
                   other>>

\* the Bpf goes out of scope: its tables are dropped, and with them every
\* map that no view shares; its handle is released.  An iterator of
\* Bpf::maps borrows the Bpf, a view does not (MapRef and MapRefMut have no
\* lifetime, lines 153-156, 170-173, 187), so views may be out.
DropBpf ==
    /\ Loaded
    /\ Len(iters) = 0
    /\ pc' = "dropped"
    /\ bpf' = None
    /\ LET kept == {n \in DOMAIN lock : Viewed(lock[n])} IN
        /\ lock' = Only(lock, kept)
        /\ cells' = Only(cells, kept)
        /\ kernel' = KernelClose(kernel, {Unwrap(cells[n].fd) : n \in DOMAIN cells \ kept})
    /\ UNCHANGED <<data, target_btf, obj, parsed, maps, calls, result, held, iters, ret,
                   other>>

RemoveAt(q, i) == [j \in 1 .. Len(q) - 1 |-> IF j < i THEN q[j] ELSE q[j + 1]]

\* Bpf::maps(): the iterator is built over every entry, nothing is borrowed
\* yet  (lines 187-196)
BpfMaps ==
    /\ Loaded
    /\ Len(iters) < MaxIters
    /\ iters' = Append(iters, DOMAIN MapsOf)
    /\ UNCHANGED <<loadVars, other, bpf, lock, cells, held, ret>>

\* a slip: the iteration ends at the first map that cannot be borrowed
AfterYield_StopOnError(left, name, ok) == IF ok THEN left \ {name} ELSE {}

\* what is left to an iterator that yielded an entry, view or error: the
\* other entries  (lines 188-194)
AfterYield(left, name, ok) == left \ {name}

\* one next() of an iterator of Bpf::maps: the closure of lines 188-194 on
\* the next entry of the hash map, whichever that is
MapsNext(i) ==
    /\ Loaded
    /\ iters[i] # {}
    /\ \E name \in iters[i] :
        LET a == try_read(lock[name]) IN
        /\ Returns(a)
        /\ iters' = [iters EXCEPT ![i] = AfterYield(@, name, a.ok)]
        /\ IF a.ok
           THEN /\ HeldCount < MaxViews
                /\ lock' = [lock EXCEPT ![name] = a.lock]
                /\ held' = [held EXCEPT ![name].s = @ + 1]
                /\ ret' = Returned("maps", name, "Some", NoError)
           ELSE /\ ret' = Returned("maps", name, "Err", BorrowError(name))
                /\ UNCHANGED <<lock, held>>
    /\ UNCHANGED <<loadVars, other, bpf, cells>>

\* an iterator of Bpf::maps is dropped, exhausted or not
MapsDone(i) ==
    /\ Loaded
    /\ iters' = RemoveAt(iters, i)
    /\ UNCHANGED <<loadVars, other, bpf, lock, cells, held, ret>>

\* a slip: an absent program is reported as an error
ProgramLookup_AbsentIsErr(name, K) ==
    IF Get(ProgramsOf, name) = None THEN "Err"
    ELSE IF ProgramTryFrom(K, ProgramsOf[name]) THEN "Some"
    ELSE "Err"

\* a slip: the stored program is handed out as whatever was asked for
ProgramLookup_Unchecked(name, K) ==
    IF Get(ProgramsOf, name) = None THEN "None" ELSE "Some"

\* the outcome of a program lookup  (lines 202, 209-212)
ProgramLookup(name, K) ==
    IF Get(ProgramsOf, name) = None THEN "None"
    ELSE IF ProgramTryFrom(K, ProgramsOf[name]) THEN "Some"
    ELSE "Err"

\* Bpf::program::<T>(name)  (lines 198-203)
BpfProgram(name, K) ==
    /\ Loaded
    /\ ret' = Returned("program", name, ProgramLookup(name, K),
                       IF ProgramLookup(name, K) = "Err" THEN Mismatch ELSE NoError)
    /\ UNCHANGED <<loadVars, other, bpf, lock, cells, held, iters>>

\* Bpf::program_mut::<T>(name): &mut self, so no iterator over self is alive
\* (lines 205-213)
BpfProgramMut(name, K) ==
    /\ Loaded
    /\ Len(iters) = 0
    /\ ret' = Returned("program_mut", name, ProgramLookup(name, K),
                       IF ProgramLookup(name, K) = "Err" THEN Mismatch ELSE NoError)
    /\ UNCHANGED <<loadVars, other, bpf, lock, cells, held, iters>>

\* the objects the lookups are exercised on: maps "a" (an array) and "b" (a
\* perf-event array), a program "p"
AccessMapTables ==
    {m \in MapTables :
        \A k \in DOMAIN m :
            /\ k # ".bss"
            /\ Len(m[k].data) = 0
            /\ m[k].def.max_entries = 5
            /\ (m[k].def.map_type = 2) = (k = "a")}

AccessProgramTables ==
    {f \in ProgramTables : DOMAIN f = {"p"} /\ f["p"] = "KRetProbe"}

InitAccess == InitFor(DataOf(AccessMapTables, AccessProgramTables))

NextAccess ==
    \/ \E name \in MapNames, T \in Shapes : BpfMap(name, T)
    \/ \E name \in MapNames, T \in Shapes : BpfMapMut(name, T)
    \/ \E name \in MapNames, mode \in {"s", "x"} : Release(name, mode)
    \/ BpfMaps
    \/ \E i \in DOMAIN iters : MapsNext(i)
    \/ \E i \in DOMAIN iters : MapsDone(i)
    \/ \E name \in ProgramNames, K \in RequestedVariants : BpfProgram(name, K)
    \/ \E name \in ProgramNames, K \in RequestedVariants : BpfProgramMut(name, K)
    \/ DropBpf

SpecAccess == InitAccess /\ [][NextLoad \/ NextAccess]_vars

----------------------------------------------------------------------------
(* Two loaded objects. *)

OtherLocks == Unwrap(other)

\* the views out on the second Bpf
OtherViews(n) ==
    IF other = None \/ n \notin DOMAIN OtherLocks THEN 0
    ELSE OtherLocks[n].readers + (IF OtherLocks[n].writer THEN 1 ELSE 0)

OtherCount == OtherViews(".bss") + OtherViews("a") + OtherViews("b")

\* Bpf::load is called again on the same bytes and returns a second Bpf: it
\* has the same names and definitions, and a MapLock of its own for each map
LoadAgain ==
    /\ Loaded
    /\ other = None
    /\ other' = Some(NewLocks(MapsOf))
    /\ UNCHANGED <<loadVars, bpf, lock, cells, held, iters, ret>>

\* Bpf::map::<T>(name) on the second Bpf  (lines 153-168)
OtherMap(name, T) ==
    /\ Loaded
    /\ other # None
    /\ IF Get(OtherLocks, name) = None
       THEN /\ ret' = Returned("other.map", name, "None", NoError)
            /\ UNCHANGED other
       ELSE LET a == MapAcquire(LockOf(OtherLocks, name)) IN
            /\ Returns(a)
            /\ IF ~a.ok
               THEN /\ ret' = Returned("other.map", name, "Err", BorrowError(name))
                    /\ UNCHANGED other
               ELSE IF Convert(T, MapsOf[name])
               THEN /\ HeldCount + OtherCount < MaxViews
                    /\ other' = Some([OtherLocks EXCEPT ![name] = a.lock])
                    /\ ret' = Returned("other.map", name, "Some", NoError)
               ELSE /\ other' = Some([OtherLocks EXCEPT ![name] = ConversionFailed(a.lock, "s")])
                    /\ ret' = Returned("other.map", name, "Err", ShapeMismatch(T, MapsOf[name]))
    /\ UNCHANGED <<loadVars, bpf, lock, cells, held, iters>>

\* Bpf::map_mut::<T>(name) on the second Bpf  (lines 170-185)
OtherMapMut(name, T) ==
    /\ Loaded
    /\ other # None
    /\ IF Get(OtherLocks, name) = None
       THEN /\ ret' = Returned("other.map_mut", name, "None", NoError)
            /\ UNCHANGED other
       ELSE LET a == MapMutAcquire(LockOf(OtherLocks, name)) IN
            /\ Returns(a)
            /\ IF ~a.ok
               THEN /\ ret' = Returned("other.map_mut", name, "Err", BorrowError(name))
                    /\ UNCHANGED other
               ELSE IF Convert(T, MapsOf[name])
               THEN /\ HeldCount + OtherCount < MaxViews
                    /\ other' = Some([OtherLocks EXCEPT ![name] = a.lock])
                    /\ ret' = Returned("other.map_mut", name, "Some", NoError)
               ELSE /\ other' = Some([OtherLocks EXCEPT ![name] = ConversionFailed(a.lock, "x")])
                    /\ ret' = Returned("other.map_mut", name, "Err",
                                       ShapeMismatch(T, MapsOf[name]))
    /\ UNCHANGED <<loadVars, bpf, lock, cells, held, iters>>

\* a caller lets go of a view of a map of the second Bpf
OtherRelease(name, mode) ==
    /\ Loaded
    /\ other # None
    /\ name \in DOMAIN OtherLocks
    /\ IF mode = "s" THEN OtherLocks[name].readers > 0 ELSE OtherLocks[name].writer
    /\ other' = Some([OtherLocks EXCEPT ![name] = Drop(@, mode)])
    /\ UNCHANGED <<loadVars, bpf, lock, cells, held, iters, ret>>

NextTwo ==
    \/ \E name \in MapNames, T \in Shapes : BpfMap(name, T)
    \/ \E name \in MapNames, T \in Shapes : BpfMapMut(name, T)
    \/ \E name \in MapNames, mode \in {"s", "x"} : Release(name, mode)
    \/ LoadAgain
    \/ \E name \in MapNames, T \in Shapes : OtherMap(name, T)
    \/ \E name \in MapNames, T \in Shapes : OtherMapMut(name, T)
    \/ \E name \in MapNames, mode \in {"s", "x"} : OtherRelease(name, mode)

SpecTwo == InitAccess /\ [][NextLoad \/ NextTwo]_vars

----------------------------------------------------------------------------
(* Properties of the map access layer, checked under SpecAccess. *)

\* the names the maps and programs had in the parsed object
ParsedMapNames == {parsed.maps[k].name : k \in DOMAIN parsed.maps}
ParsedProgramNames == DOMAIN parsed.programs

\* views of map n that callers hold
Outstanding(n) == held[n].s + held[n].x

IsBorrowError(r, n) == r.tag = "Err" /\ r.err = "BorrowError" /\ r.errname = n

\* the step returned from that lookup of that name: every lookup says in
\* what it returns which lookup it was, so a step that is one of them is
\* told by this before the lookup itself is compared with the step
Called(op, n) == ret'.op = op /\ ret'.name = n

\* C1: readers or one writer.  In every state reached by any interleaving of
\* Bpf::map, Bpf::map_mut, Bpf::maps and releases, callers hold at most one
\* exclusive view of a map, and while they hold one they hold no shared view
\* of that map.
C1_ReadersOrOneWriter ==
    \A n \in MapNames :
        /\ held[n].x <= 1
        /\ held[n].x = 1 => held[n].s = 0

\* an exclusive view of "a" is out and a second request for one was refused
C1_Witness ==
    /\ held["a"].x = 1
    /\ ret.op = "map_mut"
    /\ ret.name = "a"
    /\ IsBorrowError(ret, "a")

C2_Step ==
    \A n \in ParsedMapNames, T \in Shapes :
        /\ Called("map_mut", n) /\ BpfMapMut(n, T) =>
            /\ IsBorrowError(ret', n) <=> Outstanding(n) > 0
            /\ Outstanding(n) = 0 => ret'.err # "BorrowError"
        /\ Called("map", n) /\ BpfMap(n, T) =>
            /\ IsBorrowError(ret', n) <=> held[n].x > 0
            /\ held[n].x = 0 => ret'.err # "BorrowError"

\* C2: the outcome of an acquisition is decided by the views out on that map.
\* On a present map, Bpf::map_mut returns the borrow error carrying the map's
\* name exactly when some view of the map is held, and Bpf::map returns it
\* exactly when an exclusive view of the map is held, however many shared
\* views are held.
C2_OutcomeByBorrowState == [][C2_Step]_vars

\* with two shared views of "a" out, an exclusive request was refused
C2_Witness ==
    /\ held["a"].s = 2
    /\ ret.op = "map_mut"
    /\ IsBorrowError(ret, "a")

C3_Counts ==
    \A n \in MapNames :
        IF n \in DOMAIN lock
        THEN /\ lock[n].readers = held[n].s
             /\ lock[n].writer = (held[n].x = 1)
             /\ held[n].x <= 1
        ELSE Outstanding(n) = 0

C3_Step ==
    \A n \in MapNames, T \in Shapes :
        ret'.tag = "Err" /\ ret'.name = n /\ (BpfMap(n, T) \/ BpfMapMut(n, T))
            => lock' = lock /\ held' = held

\* C3: every view is released exactly once.  The borrow state of each map
\* counts exactly the views callers hold, and a Bpf::map or Bpf::map_mut call
\* that returns an error, by a refused borrow or by a failed conversion of
\* the view it acquired, leaves every map's borrow state as it was.
C3_ReleasedOnEveryPath == []C3_Counts /\ [][C3_Step]_vars

\* the conversion of an exclusive view of "a" failed, and nothing is left borrowed
C3_Witness ==
    /\ Loaded
    /\ ret.op = "map_mut"
    /\ ret.name = "a"
    /\ ret.err = "Mismatch"
    /\ lock["a"] = Unlocked

C10_Step ==
    /\ \A n \in MapNames, T \in Shapes :
        ret'.name = n /\ (BpfMap(n, T) \/ BpfMapMut(n, T)) =>
            IF n \in ParsedMapNames
            THEN ret'.tag \in {"Some", "Err"}
            ELSE ret'.tag = "None" /\ lock' = lock /\ held' = held
    /\ \A n \in ProgramNames, K \in RequestedVariants :
        ret'.name = n /\ (BpfProgram(n, K) \/ BpfProgramMut(n, K)) =>
            /\ ret'.tag = "None" <=> n \notin ParsedProgramNames
            /\ lock' = lock /\ held' = held

\* C10: a lookup of a name the loaded object does not have returns Ok(None)
\* from Bpf::map, Bpf::map_mut, Bpf::program and Bpf::program_mut, whatever is
\* borrowed, and acquires no view; a lookup of a name it has never returns
\* Ok(None).
C10_AbsentIsNone == [][C10_Step]_vars

\* ".bss" was looked up and not found while an exclusive view of "a" is out
C10_Witness ==
    /\ ret.op = "map_mut"
    /\ ret.name = ".bss"
    /\ ret.tag = "None"
    /\ held["a"].x = 1

\* the requested shape is the shape of the map as the loaded object holds it
Fits(T, n) ==
    /\ T.map_type = MapsOf[n].obj.def.map_type
    /\ T.key_size = MapsOf[n].obj.def.key_size
    /\ T.value_size = MapsOf[n].obj.def.value_size

C11_Step ==
    \A n \in ParsedMapNames, T \in Shapes :
        /\ Called("map", n) /\ BpfMap(n, T) /\ held[n].x = 0 =>
            IF Fits(T, n)
            THEN ret'.tag = "Some" /\ held'[n].s = held[n].s + 1
            ELSE ret'.tag = "Err" /\ ret'.err = "Mismatch" /\ held' = held
        /\ Called("map_mut", n) /\ BpfMapMut(n, T) /\ Outstanding(n) = 0 =>
            IF Fits(T, n)
            THEN ret'.tag = "Some" /\ held'[n].x = 1
            ELSE ret'.tag = "Err" /\ ret'.err = "Mismatch" /\ held' = held

\* C11: a typed view is checked against the map.  On a present map whose
\* borrow can be taken, Bpf::map::<T> and Bpf::map_mut::<T> return a view
\* exactly when the map's kind, key size and value size are all those T
\* requires, and otherwise return the mismatch error and hand out no view.
C11_TypedViewChecked == [][C11_Step]_vars

\* a view of wider values was asked of "a", whose kind and key size fit, and
\* was refused
C11_Witness ==
    /\ ret.op = "map"
    /\ ret.name = "a"
    /\ ret.err = "Mismatch"
    /\ ret.what = "value_size"

----------------------------------------------------------------------------
(* Properties of Bpf::load, checked under Spec. *)

Range(q) == {q[i] : i \in DOMAIN q}

\* the parsed map of a name
ParsedMap(n) == parsed.maps[CHOOSE k \in DOMAIN parsed.maps : parsed.maps[k].name = n]

\* a perf-event array declared with max_entries zero
DeclaredPerfZero(def) == def.map_type = BPF_MAP_TYPE_PERF_EVENT_ARRAY /\ def.max_entries = 0

\* a map whose initial data has to be written
WantsData(o) == o.data # <<>> /\ o.name # ".bss"

\* the positions in the call history of the calls of one kind for one map
CallsOf(op, n) == {i \in DOMAIN calls : calls[i].op = op /\ calls[i].name = n}
Positions(op) == {i \in DOMAIN calls : calls[i].op = op}

\* map n has been created, and written if it has data to write, before position i
ReadyBefore(n, i) ==
    /\ \E j \in CallsOf("create", n) : j < i /\ calls[j].ok
    /\ WantsData(ParsedMap(n)) => \E j \in CallsOf("update", n) : j < i /\ calls[j].ok

\* C4: map-reference relocation starts only after every map of the parsed
\* object has been created and its initial data written; it runs once, over
\* the complete set of created maps, and no program is rewritten for maps
\* while a map is still to be created.
C4_RelocateAfterAllMaps ==
    /\ Cardinality(Positions("relocate_maps")) <= 1
    /\ \A i \in Positions("relocate_maps") :
        /\ \A n \in ParsedMapNames : ReadyBefore(n, i)
        /\ {m.obj.name : m \in Range(calls[i].maps)} = ParsedMapNames
        /\ Len(calls[i].maps) = Cardinality(ParsedMapNames)
        /\ \A m \in Range(calls[i].maps) : IsSome(m.fd) /\ Unwrap(m.fd) \in DOMAIN kernel
    /\ "maps" \in obj.relocated =>
        /\ DOMAIN obj.maps = {}
        /\ Positions("relocate_maps") # {}

\* relocation ran over two created maps, one of them written
C4_Witness ==
    /\ pc = "relocate_calls"
    /\ Len(maps) = 2
    /\ Positions("update") # {}

Failed(i) == ~calls[i].ok

\* C5: load is all or nothing.  A failed call is the last call load makes
\* and load returns its error with no Bpf; a Bpf is returned only after
\* every stage succeeded for every map of the object.
C5_AllOrNothing ==
    /\ \A i \in DOMAIN calls : Failed(i) => i = Len(calls) /\ pc = "failed"
    /\ pc = "failed" => result.tag = "Err" /\ bpf = None
    /\ result.tag = "Err" <=> \E i \in DOMAIN calls : Failed(i)
    /\ result.tag # "Ok" => bpf = None
    /\ bpf # None =>
        /\ pc = "done" /\ result = Ok
        /\ \A i \in DOMAIN calls : calls[i].ok
        /\ Positions("parse") # {}
        /\ target_btf => Positions("relocate_btf") # {}
        /\ \A n \in ParsedMapNames : ReadyBefore(n, Len(calls) + 1)
        /\ Positions("relocate_maps") # {}
        /\ Positions("relocate_calls") # {}

\* a map was created, the write of its data failed, and load returned the error
C5_Witness ==
    /\ pc = "failed"
    /\ result.tag = "Err"
    /\ result.detail = "UpdateElementError"
    /\ Cardinality(DOMAIN kernel) = 2

\* the largest of a sequence of CPU ids, 0 for none
MaxOrZero(ids) ==
    IF ids = <<>> THEN 0
    ELSE CHOOSE x \in Range(ids) : \A y \in Range(ids) : y <= x

\* the CPU ids load was given when it resolved map n
IdsFor(n) == calls[CHOOSE i \in CallsOf("possible_cpus", n) : TRUE].ids

\* C6: a perf-event array declared with max_entries zero is created, and
\* kept in the Bpf, with max_entries the last and largest of the CPU ids
\* possible_cpus answered, not their number, and 0 when it answered none.
C6_PerfArrayMaxEntries ==
    /\ \A i \in Positions("create") :
        LET n == calls[i].name IN
        DeclaredPerfZero(ParsedMap(n).def) =>
            /\ Cardinality(CallsOf("possible_cpus", n)) = 1
            /\ calls[i].def.max_entries = MaxOrZero(IdsFor(n))
            /\ calls[i].ok => kernel[Unwrap(calls[i].fd)].def.max_entries = MaxOrZero(IdsFor(n))
    /\ bpf # None =>
        \A n \in ParsedMapNames :
            DeclaredPerfZero(ParsedMap(n).def) =>
                MapsOf[n].obj.def.max_entries = MaxOrZero(IdsFor(n))

\* a load returned a Bpf with one such map resolved to 3 from ids 0..3 and
\* another resolved to 0 from no ids
C6_Witness ==
    /\ pc = "done"
    /\ \E n1, n2 \in ParsedMapNames :
        /\ DeclaredPerfZero(ParsedMap(n1).def) /\ DeclaredPerfZero(ParsedMap(n2).def)
        /\ IdsFor(n1) = <<0, 1, 2, 3>> /\ MapsOf[n1].obj.def.max_entries = 3
        /\ IdsFor(n2) = <<>> /\ MapsOf[n2].obj.def.max_entries = 0

SameButMaxEntries(d, e) ==
    /\ d.map_type = e.map_type
    /\ d.key_size = e.key_size
    /\ d.value_size = e.value_size
    /\ d.map_flags = e.map_flags

\* the definition of the parsed map, as load may change it
KeepsDeclared(declared, used) ==
    /\ SameButMaxEntries(declared, used)
    /\ ~DeclaredPerfZero(declared) => used.max_entries = declared.max_entries

\* C7: load changes max_entries only of perf-event arrays declared with
\* zero; every other map is created, and kept in the Bpf, with the
\* max_entries it declared, and load never changes a map's kind, key size,
\* value size or flags.
C7_OtherDefsUnchanged ==
    /\ \A i \in Positions("create") :
        /\ KeepsDeclared(ParsedMap(calls[i].name).def, calls[i].def)
        /\ calls[i].ok =>
            KeepsDeclared(ParsedMap(calls[i].name).def, kernel[Unwrap(calls[i].fd)].def)
    /\ \A i \in DOMAIN maps :
        KeepsDeclared(ParsedMap(maps[i].obj.name).def, maps[i].obj.def)
    /\ bpf # None =>
        \A n \in DOMAIN MapsOf : KeepsDeclared(ParsedMap(n).def, MapsOf[n].obj.def)

\* a load returned a Bpf with an array declared with max_entries zero, kept zero
C7_Witness ==
    /\ pc = "done"
    /\ \E n \in DOMAIN MapsOf :
        /\ MapsOf[n].obj.def.map_type = 2
        /\ ParsedMap(n).def.max_entries = 0
        /\ MapsOf[n].obj.def.max_entries = 0
        /\ Positions("possible_cpus") # {}

\* C8: for a map with initial data that is not ".bss", load makes exactly
\* one update call, right after the map's creation and on the handle that
\* creation returned, writing the data at key 0, so that element 0 of the
\* map is the data when load returns the Bpf; for ".bss" and for a map
\* without data it makes none.
C8_InitialDataWritten ==
    /\ \A i \in Positions("create") :
        LET o == ParsedMap(calls[i].name) IN
        IF calls[i].ok /\ WantsData(o)
        THEN /\ CallsOf("update", o.name) = {i + 1}
             /\ calls[i + 1].fd = Unwrap(calls[i].fd)
             /\ calls[i + 1].key = 0
             /\ calls[i + 1].value = o.data
             /\ calls[i + 1].ok => kernel[calls[i + 1].fd].elem0 = o.data
        ELSE CallsOf("update", o.name) = {}
    /\ \A i \in Positions("update") : CallsOf("create", calls[i].name) = {i - 1}
    /\ bpf # None =>
        \A n \in DOMAIN MapsOf :
            WantsData(ParsedMap(n)) => kernel[Unwrap(MapsOf[n].fd)].elem0 = ParsedMap(n).data

\* a load returned a Bpf with a written map and a ".bss" that has data and
\* was not written
C8_Witness ==
    /\ pc = "done"
    /\ ".bss" \in DOMAIN MapsOf
    /\ MapsOf[".bss"].obj.data = <<7>>
    /\ kernel[Unwrap(MapsOf[".bss"].fd)].elem0 = <<>>
    /\ \E n \in DOMAIN MapsOf : kernel[Unwrap(MapsOf[n].fd)].elem0 = <<7>>

\* C9: a successful load of an object with N maps and M programs returns a
\* Bpf with exactly N map entries and M program entries, each found under
\* the name it had in the parsed object.
C9_NamesRoundTrip ==
    bpf # None =>
        /\ Cardinality(DOMAIN MapsOf) = Cardinality(DOMAIN parsed.maps)
        /\ Cardinality(DOMAIN ProgramsOf) = Cardinality(DOMAIN parsed.programs)
        /\ \A k \in DOMAIN parsed.maps :
            /\ Get(MapsOf, parsed.maps[k].name) # None
            /\ MapsOf[parsed.maps[k].name].obj.name = parsed.maps[k].name
            /\ MapsOf[parsed.maps[k].name].obj.data = parsed.maps[k].data
            /\ parsed.maps[k].name \in DOMAIN lock
        /\ \A p \in DOMAIN parsed.programs :
            /\ Get(ProgramsOf, p) # None
            /\ ProgramsOf[p].data.name = p
            /\ ProgramsOf[p].data.obj.kind = parsed.programs[p]

\* a load returned a Bpf for an object of two maps and one program
C9_Witness ==
    /\ pc = "done"
    /\ Cardinality(DOMAIN parsed.maps) = 2
    /\ Cardinality(DOMAIN parsed.programs) = 1
    /\ Cardinality(DOMAIN MapsOf) = 2

\* the wrapper and the probe tag each parsed kind is to get
WrapperOf(k) ==
    IF k \in {"KProbe", "KRetProbe"} THEN "KProbe"
    ELSE IF k \in {"UProbe", "URetProbe"} THEN "UProbe"
    ELSE k

FlavorOf(k) ==
    IF k \in {"KProbe", "UProbe"} THEN <<"entry">>
    ELSE IF k \in {"KRetProbe", "URetProbe"} THEN <<"return">>
    ELSE <<>>

\* entry or return, read off the ProbeKind a wrapper carries
Flavor(tag) ==
    IF tag = None THEN <<>>
    ELSE IF Unwrap(tag) \in {"KRetProbe", "URetProbe"} THEN <<"return">>
    ELSE <<"entry">>

\* C12: every program of a returned Bpf is wrapped by its parsed kind:
\* KProbe and KRetProbe in the kernel-probe wrapper tagged entry and return,
\* UProbe and URetProbe in the user-probe wrapper tagged entry and return,
\* TracePoint, SocketFilter and Xdp each in its own untagged wrapper; it
\* has no kernel handle, no attachment links, and the name it is keyed by.
C12_ProgramWrappers ==
    bpf # None =>
        \A p \in DOMAIN ProgramsOf :
            LET k == parsed.programs[p]
                r == ProgramsOf[p]
            IN  /\ r.variant = WrapperOf(k)
                /\ Flavor(r.kind) = FlavorOf(k)
                /\ r.kind # None => Unwrap(r.kind) = k
                /\ r.data.fd = None
                /\ r.data.links = <<>>
                /\ r.data.name = p
                /\ r.data.obj.kind = k

\* a load returned a Bpf whose program "q" was parsed as a user return probe
C12_Witness ==
    /\ pc = "done"
    /\ "q" \in DOMAIN ProgramsOf
    /\ parsed.programs["q"] = "URetProbe"
    /\ ProgramsOf["q"].variant = "UProbe"
    /\ ProgramsOf["q"].kind = Some("URetProbe")

\* the record holds the handle that the successful creation of its map returned
HasCreatedFd(m) ==
    /\ IsSome(m.fd)
    /\ Unwrap(m.fd) \in DOMAIN kernel
    /\ \E i \in CallsOf("create", m.obj.name) : calls[i].ok /\ calls[i].fd = m.fd

\* C14: a Map Record that load keeps has the kernel handle its creation
\* returned, at every later point: in load's list of created maps, in the
\* slice given to map relocation, and in the returned Bpf for as long as it
\* is looked up; a map whose creation failed is kept nowhere.
C14_HandleSetByCreate ==
    /\ \A i \in DOMAIN maps : HasCreatedFd(maps[i])
    /\ \A i \in Positions("relocate_maps") :
        \A m \in Range(calls[i].maps) : HasCreatedFd(m)
    /\ bpf # None => \A n \in DOMAIN MapsOf : HasCreatedFd(MapsOf[n])
    /\ \A i \in Positions("create") :
        ~calls[i].ok =>
            /\ calls[i].fd = None
            /\ \A j \in DOMAIN maps : maps[j].obj.name # calls[i].name

\* views of both maps of a returned Bpf are out, and both maps have their handles
C14_Witness ==
    /\ Loaded
    /\ held["a"].s = 1
    /\ held["b"].x = 1
    /\ MapsOf["a"].fd # None
    /\ MapsOf["b"].fd # None
    /\ MapsOf["a"].fd # MapsOf["b"].fd

\* the handles of the maps load created
CreatedFds == {Unwrap(calls[i].fd) : i \in {j \in Positions("create") : calls[j].ok}}

DoneBefore(op, i) == \E j \in Positions(op) : j < i /\ calls[j].ok

\* the rewrites a program's instructions must have received
Due == {"maps", "calls"} \cup (IF target_btf THEN {"btf"} ELSE {})

\* C17: call relocation runs after parsing, and after BTF relocation when a
\* target BTF was given; BTF relocation, when asked for, runs before any map
\* is created; programs are wrapped only after map and call relocation both
\* succeeded, from instructions that received every rewrite due, and no
\* relocation runs after that.
C17_RelocationOrder ==
    /\ \A i \in Positions("relocate_calls") :
        /\ DoneBefore("parse", i)
        /\ DoneBefore("relocate_maps", i)
        /\ target_btf => DoneBefore("relocate_btf", i)
    /\ \A i \in Positions("create") \cup Positions("possible_cpus") :
        /\ DoneBefore("parse", i)
        /\ target_btf => DoneBefore("relocate_btf", i)
    /\ ~target_btf => Positions("relocate_btf") = {}
    /\ pc = "programs" => Due \subseteq obj.relocated
    /\ bpf # None =>
        /\ calls[Len(calls)].op = "relocate_calls"
        /\ calls[Len(calls)].ok
        /\ \A p \in DOMAIN ProgramsOf : ProgramsOf[p].data.obj.relocated = Due

\* a load with a target BTF returned a Bpf with a map and a program, the
\* program's instructions rewritten for BTF, maps and calls
C17_Witness ==
    /\ pc = "done"
    /\ target_btf
    /\ DOMAIN MapsOf # {}
    /\ \E p \in DOMAIN ProgramsOf :
        ProgramsOf[p].data.obj.relocated = {"btf", "maps", "calls"}

IsFileError(r) == r.tag = "Err" /\ r.kind = "FileError"

\* C20: possible_cpus is called only for a perf-event array declared with
\* max_entries zero.  A load of an object without such a map never calls
\* it and never returns the file error, whatever the call would have
\* answered; when the call fails, it is the last thing load does, load
\* returns the file error carrying the path of the CPU list, and the map
\* it was made for is never created.
C20_CpusOnlyWhenNeeded ==
    /\ \A i \in Positions("possible_cpus") :
        /\ DeclaredPerfZero(ParsedMap(calls[i].name).def)
        /\ ~calls[i].ok =>
            /\ i = Len(calls)
            /\ pc = "failed"
            /\ result = Err("FileError", POSSIBLE_CPUS)
            /\ bpf = None
            /\ CallsOf("create", calls[i].name) = {}
            /\ \A j \in DOMAIN maps : maps[j].obj.name # calls[i].name
    /\ (\A n \in ParsedMapNames : ~DeclaredPerfZero(ParsedMap(n).def)) =>
        /\ Positions("possible_cpus") = {}
        /\ ~IsFileError(result)
    /\ IsFileError(result) =>
        /\ result.detail = POSSIBLE_CPUS
        /\ calls[Len(calls)].op = "possible_cpus"
        /\ ~calls[Len(calls)].ok

\* after one map was created, the CPU list could not be read for the
\* second, and load returned the file error
C20_Witness ==
    /\ pc = "failed"
    /\ IsFileError(result)
    /\ Cardinality(DOMAIN kernel) = 1
    /\ Cardinality(Positions("create")) = 1
    /\ Cardinality(ParsedMapNames) = 2

----------------------------------------------------------------------------
(* Properties of the program lookups, checked under SpecAccess. *)

C13_Kinds ==
    Loaded =>
        \A p \in DOMAIN ProgramsOf :
            /\ ProgramsOf[p].data.obj.kind = parsed.programs[p]
            /\ ProgramsOf[p].variant = WrapperOf(parsed.programs[p])

C13_Step ==
    \A n \in ParsedProgramNames, K \in RequestedVariants :
        ret'.name = n /\ (BpfProgram(n, K) \/ BpfProgramMut(n, K)) =>
            /\ IF K = WrapperOf(parsed.programs[n])
               THEN ret'.tag = "Some" /\ ret'.err = ""
               ELSE ret'.tag = "Err" /\ ret'.err = "Mismatch"
            /\ bpf' = bpf

\* C13: Bpf::program and Bpf::program_mut on a present program return it
\* when the wrapper asked for is the one its parsed kind was given, and the
\* mismatch error otherwise; the kind a program was parsed with stays the
\* kind it is stored with, whatever lookups are made.
C13_ProgramKindChecked == []C13_Kinds /\ [][C13_Step]_vars

\* the return probe "p" was asked for as an Xdp program, mutably, and refused
C13_Witness ==
    /\ ret.op = "program_mut"
    /\ ret.name = "p"
    /\ ret.tag = "Err"
    /\ ret.err = "Mismatch"
    /\ ProgramsOf["p"].kind = Some("KRetProbe")

----------------------------------------------------------------------------
(* Properties of contention, checked under SpecAccess. *)

\* C16: a borrow attempt never waits.  Whatever views are out, and whoever
\* holds them, every Bpf::map and Bpf::map_mut call on every name and every
\* next() of every unfinished Bpf::maps iterator can complete at once, so no
\* holder is ever waited for.  (A call that would hand out a view beyond
\* the MaxViews views the model keeps track of is not considered.)
C16_NeverBlocks ==
    Loaded /\ HeldCount < MaxViews =>
        /\ \A n \in MapNames, T \in Shapes :
            ENABLED BpfMap(n, T) /\ ENABLED BpfMapMut(n, T)
        /\ \A i \in DOMAIN iters : iters[i] # {} => ENABLED MapsNext(i)

C18_Step ==
    /\ BpfMaps => iters'[Len(iters')] = ParsedMapNames
    /\ \A i \in DOMAIN iters :
        ret'.op = "maps" /\ MapsNext(i) =>
            LET n == ret'.name IN
            /\ ret'.op = "maps"
            /\ n \in iters[i]
            /\ iters'[i] = iters[i] \ {n}
            /\ \A j \in DOMAIN iters \ {i} : iters'[j] = iters[j]
            /\ IF held[n].x > 0
               THEN IsBorrowError(ret', n) /\ held' = held
               ELSE ret'.tag = "Some" /\ held'[n].s = held[n].s + 1
    /\ \A n \in ParsedMapNames, T \in Shapes :
        Called("map_mut", n) /\ BpfMapMut(n, T) /\ held[n].s > 0 =>
            IsBorrowError(ret', n) /\ held' = held

\* C18: an iterator of Bpf::maps starts with every map of the Bpf to yield,
\* and each next() yields one map not yet yielded, by name, and leaves all
\* the others to come: with a shared view if no exclusive view of that map
\* is out, with the borrow error carrying its name if one is.  While a
\* shared view is held, Bpf::map_mut on that map returns the borrow error.
C18_MapsYieldsEachOnce ==
    [](\A i \in DOMAIN iters : iters[i] \subseteq ParsedMapNames) /\ [][C18_Step]_vars

\* an iterator went through both maps while an exclusive view of "a" was
\* out: it is exhausted and the caller holds the shared view of "b" it yielded
C18_Witness ==
    /\ held["a"].x = 1
    /\ held["a"].s = 0
    /\ held["b"].s = 1
    /\ ret.op = "maps"
    /\ ret.name = "b"
    /\ ret.tag = "Some"
    /\ \E i \in DOMAIN iters : iters[i] = {}

\* exclusive views of both maps are out, and a further request for "b" came
\* back at once with the borrow error
C16_Witness ==
    /\ held["a"].x = 1
    /\ held["b"].x = 1
    /\ ret.op = "map"
    /\ IsBorrowError(ret, "b")

----------------------------------------------------------------------------
(* Properties of two loaded objects, checked under SpecTwo. *)

\* the borrow state of every map of the first Bpf but n is as it was
OthersKept(n) ==
    /\ \A m \in DOMAIN lock \ {n} : lock'[m] = lock[m]
    /\ \A m \in MapNames \ {n} : held'[m] = held[m]

\* the borrow state of every map of the second Bpf but n is as it was
OtherKept(n) ==
    other # None =>
        /\ other' # None
        /\ \A m \in DOMAIN OtherLocks \ {n} : Unwrap(other')[m] = OtherLocks[m]

C19_Step ==
    /\ \A n \in MapNames, T \in Shapes :
        /\ Called("map", n) /\ BpfMap(n, T) =>
            /\ OthersKept(n) /\ other' = other
            /\ n \in ParsedMapNames /\ held[n].x = 0 => ret'.err # "BorrowError"
        /\ Called("map_mut", n) /\ BpfMapMut(n, T) =>
            /\ OthersKept(n) /\ other' = other
            /\ n \in ParsedMapNames /\ Outstanding(n) = 0 => ret'.err # "BorrowError"
        /\ Called("other.map", n) /\ OtherMap(n, T) =>
            /\ OtherKept(n) /\ lock' = lock /\ held' = held
            /\ n \in ParsedMapNames /\ ~OtherLocks[n].writer => ret'.err # "BorrowError"
        /\ Called("other.map_mut", n) /\ OtherMapMut(n, T) =>
            /\ OtherKept(n) /\ lock' = lock /\ held' = held
            /\ n \in ParsedMapNames /\ OtherViews(n) = 0 => ret'.err # "BorrowError"
    /\ \A n \in MapNames, mode \in {"s", "x"} :
        /\ held'[n] # held[n] /\ Release(n, mode) => OthersKept(n) /\ other' = other
        /\ other' # other /\ OtherRelease(n, mode) =>
            OtherKept(n) /\ lock' = lock /\ held' = held
    /\ other' # other /\ LoadAgain => lock' = lock /\ held' = held

\* C19: borrow state is kept per map and per Bpf.  A lookup or a release on
\* one map leaves the views counted on every other map of the same Bpf, and
\* on every map of the other Bpf, the one of the same name included, as
\* they were; and a lookup is refused only for views out on that map of
\* that Bpf, whatever is out on other maps or on the other Bpf.
C19_BorrowStatePerMap == [][C19_Step]_vars

\* with exclusive views out of "a" in the first Bpf and of "a" and "b" in
\* the second, an exclusive view of "b" of the first was handed out
C19_Witness ==
    /\ other # None
    /\ DOMAIN OtherLocks = {"a", "b"}
    /\ OtherLocks["a"].writer
    /\ OtherLocks["b"].writer
    /\ held["a"].x = 1
    /\ held["b"].x = 1
    /\ ret.op = "map_mut"
    /\ ret.name = "b"
    /\ ret.tag = "Some"

====
